---- MODULE Spec2Model ----
(***************************************************************************)
(* Model of xgroq_cpp.py: the generate -> compile -> repair loop, the      *)
(* post-processing of generated text (generate_code) and the build step    *)
(* (test_code).                                                            *)
(*                                                                         *)
(* Text is a sequence of pieces.  A piece is a TLA+ string: either one     *)
(* character ("a", " ", "\n") or a fixed literal of the program that       *)
(* is never inspected character by character (a part of a prompt template  *)
(* or of the header).  The size of a text in characters is the sum of the  *)
(* lengths of its pieces.                                                  *)
(***************************************************************************)
EXTENDS Integers, Sequences, FiniteSets, TLC

(***************************************************************************)
(* Bounds of the model.                                                    *)
(***************************************************************************)
MaxAttemptLimit == 2    \* max_attempts ranges over 1..MaxAttemptLimit
MaxTimeBudget == 2      \* max_time ranges over 0..MaxTimeBudget (seconds)
MaxLatency == 1         \* one generation call takes 0..MaxLatency seconds
MaxRawLines == 4        \* a raw response has 0..MaxRawLines lines (SpecSanitize)
MaxCRLFLines == 2       \* or 0..MaxCRLFLines lines when they end in "\r\n"

(***************************************************************************)
(* Python string primitives used by the program.                           *)
(***************************************************************************)
NL == "\n"
CR == "\r"

NoFile == <<"<no such file>">>

IsSpace(c) == c \in {" ", "\t"}

\* str.startswith
StartsWith(s, p) == Len(s) >= Len(p) /\ SubSeq(s, 1, Len(p)) = p

\* F(e) with e evaluated once (a LET definition is evaluated at every use)
Let(e, F(_)) == CHOOSE r \in {F(x) : x \in {e}} : TRUE

\* str.strip: leading and trailing whitespace removed
RECURSIVE FirstNonSpace(_, _)
FirstNonSpace(s, i) ==
    IF i > Len(s) THEN i
    ELSE IF IsSpace(s[i]) THEN FirstNonSpace(s, i + 1)
    ELSE i

RECURSIVE LastNonSpace(_, _)
LastNonSpace(s, i) ==
    IF i < 1 THEN i
    ELSE IF IsSpace(s[i]) THEN LastNonSpace(s, i - 1)
    ELSE i

StripValue(s) == SubSeq(s, FirstNonSpace(s, 1), LastNonSpace(s, Len(s)))

Strip(s) == Let(s, StripValue)

\* index of the first line boundary of s at or after i, 0 when there is none
RECURSIVE FirstNL(_, _)
FirstNL(s, i) ==
    IF i > Len(s) THEN 0
    ELSE IF s[i] \in {NL, CR} THEN i
    ELSE FirstNL(s, i + 1)

\* index of the first character after the line boundary that starts at i:
\* "\r\n" is one boundary
AfterNL(s, i) ==
    IF s[i] = CR /\ i < Len(s) /\ s[i + 1] = NL THEN i + 2 ELSE i + 1

\* str.splitlines: no empty last line after a final newline, "" has no lines
RECURSIVE SplitFrom(_, _)
SplitFrom(s, start) ==
    IF start > Len(s) THEN <<>>
    ELSE Let(FirstNL(s, start),
             LAMBDA i : IF i = 0 THEN <<SubSeq(s, start, Len(s))>>
                        ELSE <<SubSeq(s, start, i - 1)>>
                             \o SplitFrom(s, AfterNL(s, i)))

SplitLinesValue(s) == SplitFrom(s, 1)

SplitLines(s) == Let(s, SplitLinesValue)

\* "\n".join(lines)
RECURSIVE JoinFrom(_, _)
JoinFrom(lines, i) ==
    IF i > Len(lines) THEN <<>>
    ELSE IF i = Len(lines) THEN lines[i]
    ELSE lines[i] \o <<NL>> \o JoinFrom(lines, i + 1)

JoinValue(lines) == JoinFrom(lines, 1)

Join(lines) == Let(lines, JoinValue)

\* len(text) in characters
RECURSIVE Size(_)
Size(text) ==
    IF text = <<>> THEN 0 ELSE Len(Head(text)) + Size(Tail(text))

(***************************************************************************)
(* generate_code: post-processing of the provider's response               *)
(***************************************************************************)
\* the backquote character (a TLA+ string cannot hold one: "~" stands for it)
Backtick == "~"

OpenFence == <<Backtick, Backtick, Backtick, "c", "p", "p">>
CloseFence == <<Backtick, Backtick, Backtick>>
CommentToken == <<"/", "/">>

\* configuration strings that appear in the header
prompt_file == "prompt.txt"
model == "llama-3.3-70b-versatile"

\* a faulty variant of FindCodeStart: the line must be the fence exactly
RECURSIVE FindCodeStart_exact(_, _)
FindCodeStart_exact(lines, i) ==
    IF i > Len(lines) THEN 0
    ELSE IF lines[i] = OpenFence THEN i
    ELSE FindCodeStart_exact(lines, i + 1)

\* lines 93-97: index of the first line whose stripped text is the opening
\* fence, 0 if none
RECURSIVE FindCodeStart(_, _)
FindCodeStart(lines, i) ==
    IF i > Len(lines) THEN 0
    ELSE IF Strip(lines[i]) = OpenFence THEN i
    ELSE FindCodeStart(lines, i + 1)

code_start_idx(lines) == FindCodeStart(lines, 1)

\* a faulty variant of CommentOut: every line is prefixed
CommentOut_always(line) == CommentToken \o line

\* lines 102-103 and 113: prefix a line with // unless it starts with //
CommentOut(line) ==
    IF StartsWith(line, CommentToken) THEN line ELSE CommentToken \o line

\* lines 100-103: the lines up to and including the opening fence are
\* commented out in place
CommentPrefix(lines) ==
    Let(code_start_idx(lines),
        LAMBDA idx : [i \in 1..Len(lines) |->
                        IF i <= idx THEN CommentOut(lines[i]) ELSE lines[i]])

\* lines 105-109: the lines from the i-th up to, not including, the first
\* closing fence
RECURSIVE UntilCloseFence(_, _)
UntilCloseFence(lines, i) ==
    IF i > Len(lines) THEN <<>>
    ELSE IF Strip(lines[i]) = CloseFence THEN <<>>
    ELSE <<lines[i]>> \o UntilCloseFence(lines, i + 1)

\* a faulty variant of ExtractFromLines: a response without a fence is kept as it is
ExtractFromLines_asIs(lines) ==
    Let(code_start_idx(lines),
        LAMBDA idx :
            IF idx # 0
            THEN Join(UntilCloseFence(lines, idx + 1))
            ELSE Join(lines))

\* lines 100-113 on the lines of the response
ExtractFromLines(lines) ==
    Let(code_start_idx(lines),
        LAMBDA idx :
            IF idx # 0
            THEN Join(UntilCloseFence(lines, idx + 1))
            ELSE Join([i \in 1..Len(lines) |-> CommentOut(lines[i])]))

\* lines 90-113: the candidate code of a response
ExtractCode(content) == Let(SplitLines(content), ExtractFromLines)

\* a faulty variant of CommentBacktickLine: the backtick must be the first character
CommentBacktickLine_exact(line) ==
    IF StartsWith(line, <<Backtick>>) THEN CommentToken \o line ELSE line

\* lines 116-120: lines starting with a backtick are commented out
CommentBacktickLine(line) ==
    IF StartsWith(Strip(line), <<Backtick>>) THEN CommentToken \o line ELSE line

CommentBacktickLines(code_lines) ==
    Join([i \in 1..Len(code_lines) |-> CommentBacktickLine(code_lines[i])])

CommentBackticks(code) == Let(SplitLines(code), CommentBacktickLines)

\* line 123: number of non-blank lines
NonBlank(ls) == Cardinality({i \in 1..Len(ls) : Strip(ls[i]) # <<>>})

LinesOfCode(code) == Let(SplitLines(code), NonBlank)

Digit == <<"0", "1", "2", "3", "4", "5", "6", "7", "8", "9">>

RECURSIVE FormatInt(_)
FormatInt(n) ==
    IF n < 10 THEN <<Digit[n + 1]>>
    ELSE FormatInt(n \div 10) \o <<Digit[(n % 10) + 1]>>

\* f"{generation_time:.3f}" of a whole number of seconds
FormatSeconds(t) == FormatInt(t) \o <<".", "0", "0", "0">>

\* strftime("%Y-%m-%d %H:%M:%S") of a clock that stays within one minute:
\* the date, hour and minute are one literal, the seconds two digits
FormatTimestamp(now) ==
    <<"2025-01-01 10:00:", Digit[((now % 60) \div 10) + 1], Digit[((now % 60) % 10) + 1]>>

\* lines 126-131
Header(generation_time, now) ==
    CommentToken \o <<" Generated from prompt file: ", prompt_file, NL>>
    \o CommentToken \o <<" Model used: ", model, NL>>
    \o CommentToken \o <<" Time generated: ">> \o FormatTimestamp(now) \o <<NL>>
    \o CommentToken \o <<" Generation time: ">> \o FormatSeconds(generation_time)
    \o <<" seconds", NL>>

\* lines 72-132, for a response `content` that took generation_time seconds
\* and was received at wall-clock second `now`
generate_code(content, generation_time, now) ==
    Let(CommentBackticks(ExtractCode(content)),
        LAMBDA code : [code |-> Header(generation_time, now) \o code,
                       gen_time |-> generation_time,
                       loc |-> LinesOfCode(code)])

(***************************************************************************)
(* The session: configuration, program variables of the main loop, the     *)
(* files the program touches, and a record of the calls made so far.       *)
(***************************************************************************)
VARIABLES
    max_attempts,                   \* config: max_attempts (line 53)
    max_time,                       \* config: max_time (line 54)
    print_compiler_error_messages,  \* config flag (line 60)
    prompt_text,                    \* content of the prompt file (line 168)
    pc,                 \* position of the main loop
    prompt,             \* the prompt of the latest generation call
    code,               \* the latest generated source
    error,              \* diagnostic text returned by the latest test_code
    total_gen_time,     \* cumulative generation time
    attempts,           \* attempt counter (0 before line 173 sets it)
    now,                \* wall clock, in seconds
    sourceFile,         \* content of source_file, NoFile when absent
    archives,           \* suffix n |-> content of <base_name>n.cpp
    tempFile,           \* content of temp_compiler_error.txt, NoFile when absent
    prompts,            \* the prompts sent to the provider, in order
    builds,             \* one record per call of test_code, in order
    archiveWrites,      \* the archive suffixes written, in order
    gen_times,          \* the generation_time of each generation call, in order
    twin,               \* a second session run side by side (SpecPair only)
    frame               \* the local variables of one call of generate_code
                        \* taken on its own (SpecSanitize only)

vars == <<max_attempts, max_time, print_compiler_error_messages, prompt_text,
          pc, prompt, code, error, total_gen_time, attempts, now,
          sourceFile, archives, tempFile, prompts, builds, archiveWrites,
          gen_times, twin, frame>>

\* the session as one record
Cur ==
    [max_attempts |-> max_attempts, max_time |-> max_time,
     print_compiler_error_messages |-> print_compiler_error_messages,
     prompt_text |-> prompt_text,
     pc |-> pc, prompt |-> prompt, code |-> code, error |-> error,
     total_gen_time |-> total_gen_time, attempts |-> attempts, now |-> now,
     sourceFile |-> sourceFile, archives |-> archives, tempFile |-> tempFile,
     prompts |-> prompts, builds |-> builds, archiveWrites |-> archiveWrites,
     gen_times |-> gen_times]

Apply(s) ==
    /\ max_attempts' = s.max_attempts
    /\ max_time' = s.max_time
    /\ print_compiler_error_messages' = s.print_compiler_error_messages
    /\ prompt_text' = s.prompt_text
    /\ pc' = s.pc
    /\ prompt' = s.prompt
    /\ code' = s.code
    /\ error' = s.error
    /\ total_gen_time' = s.total_gen_time
    /\ attempts' = s.attempts
    /\ now' = s.now
    /\ sourceFile' = s.sourceFile
    /\ archives' = s.archives
    /\ tempFile' = s.tempFile
    /\ prompts' = s.prompts
    /\ builds' = s.builds
    /\ archiveWrites' = s.archiveWrites
    /\ gen_times' = s.gen_times

Start(s) ==
    /\ max_attempts = s.max_attempts
    /\ max_time = s.max_time
    /\ print_compiler_error_messages = s.print_compiler_error_messages
    /\ prompt_text = s.prompt_text
    /\ pc = s.pc
    /\ prompt = s.prompt
    /\ code = s.code
    /\ error = s.error
    /\ total_gen_time = s.total_gen_time
    /\ attempts = s.attempts
    /\ now = s.now
    /\ sourceFile = s.sourceFile
    /\ archives = s.archives
    /\ tempFile = s.tempFile
    /\ prompts = s.prompts
    /\ builds = s.builds
    /\ archiveWrites = s.archiveWrites
    /\ gen_times = s.gen_times

\* the session becomes s (s is evaluated once)
Becomes(s) == \E t \in {s} : Apply(t)

Terminal == {"Succeeded", "ExhaustedTime", "ExhaustedAttempts"}

\* what the environment can hand to the program
PromptTexts == {<<>>, <<"p", NL>>}
Responses ==
    {OpenFence \o <<NL, "a", ";", NL, "b", ";", NL>> \o CloseFence,
     <<"n", "o">>}
Diagnostics == {<<>>, <<"e">>}
Latencies == 0..MaxLatency

\* one run of the compiler: whether the process could be started, and if so
\* its exit status and what it wrote to its error stream
CompilerRuns ==
    {[spawned |-> FALSE, returncode |-> 1, stderr |-> <<>>]}
    \cup [spawned : {TRUE}, returncode : {0, 1}, stderr : Diagnostics]

\* no session makes more than MaxCalls generation calls or builds
MaxCalls == MaxAttemptLimit + 1


(***************************************************************************)
(* test_code (lines 134-164)                                               *)
(***************************************************************************)
\* line 136: every attempt but the first archives the previous source
Archiving(s) == s.attempts > 1

\* a faulty variant of archive_suffix: the archive carries the number of the
\* attempt that makes it
archive_suffix_current(attempt) == attempt

\* line 137: the archive of attempt n carries the suffix n-1
archive_suffix(attempt) == attempt - 1

\* a faulty variant of ArchivedContent: the copy is made after the new source is written
ArchivedContent_afterWrite(s) == s.code

\* line 138: what shutil.copyfile copies, before line 141 overwrites it
ArchivedContent(s) == s.sourceFile

\* lines 147-152: the diagnostic text when diagnostics are shown
CaptureShown(run) == run.stderr

\* a faulty variant of CaptureSuppressed: the error stream is discarded, not captured
CaptureSuppressed_discarded(run) == <<>>

\* lines 154-161: the diagnostic text when diagnostics are suppressed
CaptureSuppressed(run) ==
    LET opened == <<>>                   \* line 154: created or truncated
        written == opened \o run.stderr  \* lines 155-159: stderr goes to the file
    IN  written                          \* lines 160-161: read back

\* a faulty variant of Success: any exit status below 2 counts as success
Success_lax(run) == run.returncode <= 1

\* line 164: the first component of the result
Success(run) == run.returncode = 0

\* a faulty variant of Raise: the exception is caught and reported as a failed build
Raise_caught(s) == [s EXCEPT !.pc = "FailedAttempt", !.error = <<>>]

\* an exception raised inside test_code is caught nowhere (line 177): the
\* program ends with a traceback
Raise(s) == [s EXCEPT !.pc = "Aborted"]

\* lines 134-164 with lines 177-178/196 of the caller: one call of test_code
test_code(s, run) ==
    LET suffix == archive_suffix(s.attempts)
        copied == [s EXCEPT
                     !.archives = IF Archiving(s)
                                  THEN (suffix :> ArchivedContent(s)) @@ @
                                  ELSE @,
                     !.archiveWrites = IF Archiving(s) THEN Append(@, suffix) ELSE @]
        written == [copied EXCEPT !.sourceFile = s.code]
        opened == [written EXCEPT
                     !.tempFile = IF s.print_compiler_error_messages
                                  THEN @ ELSE <<>>]
        err == IF s.print_compiler_error_messages
               THEN CaptureShown(run) ELSE CaptureSuppressed(run)
        call(status, e) ==
            [attempt |-> s.attempts, code |-> s.code,
             hadSource |-> s.sourceFile # NoFile,
             total_gen_time |-> s.total_gen_time,
             status |-> status, returncode |-> run.returncode,
             stderr |-> run.stderr, error |-> e]
    IN  IF Archiving(s) /\ s.sourceFile = NoFile
        THEN \* line 138 raises FileNotFoundError
             [Raise(s) EXCEPT !.builds = Append(@, call("nocopy", <<>>))]
        ELSE IF ~run.spawned
        THEN \* line 147 or 155 raises: nothing after it runs
             [Raise(opened) EXCEPT !.builds = Append(@, call("nospawn", <<>>))]
        ELSE [opened EXCEPT
                !.tempFile = IF s.print_compiler_error_messages
                             THEN @ ELSE NoFile,     \* line 162
                !.error = err,
                !.builds = Append(@, call("ran", err)),
                !.pc = IF Success(run)               \* lines 164, 178, 196
                       THEN "Succeeded" ELSE "FailedAttempt"]

(***************************************************************************)
(* The main loop (lines 166-223)                                           *)
(***************************************************************************)
\* line 168
InitialPrompt(text) ==
    text \o <<"Only output C++ code. Do not give commentary.", NL>>

\* a faulty variant of RepairPrompt: the source is left out
RepairPrompt_noCode(c, e) ==
    <<"The following C++ code failed to compile: ", NL>> \o OpenFence \o <<NL>>
    \o <<NL>> \o CloseFence \o <<NL, "Error: ">> \o e
    \o <<NL, "Please fix the code and return it in a ">> \o OpenFence
    \o CloseFence \o <<" block.">>

\* a faulty variant of RepairPrompt: the diagnostic text is left out
RepairPrompt_noError(c, e) ==
    <<"The following C++ code failed to compile: ", NL>> \o OpenFence \o <<NL>>
    \o c \o <<NL>> \o CloseFence \o <<NL, "Error: ">>
    \o <<NL, "Please fix the code and return it in a ">> \o OpenFence
    \o CloseFence \o <<" block.">>

\* lines 210-213
RepairPrompt(c, e) ==
    <<"The following C++ code failed to compile: ", NL>> \o OpenFence \o <<NL>>
    \o c \o <<NL>> \o CloseFence \o <<NL, "Error: ">> \o e
    \o <<NL, "Please fix the code and return it in a ">> \o OpenFence
    \o CloseFence \o <<" block.">>

\* a faulty variant of TimeExceeded: the budget must be passed, not merely reached
TimeExceeded_strict(s) == s.total_gen_time > s.max_time

\* line 203
TimeExceeded(s) == s.total_gen_time >= s.max_time

\* a faulty variant of AttemptsExceeded: the limit is checked with >=
AttemptsExceeded_atLimit(s) == s.attempts >= s.max_attempts

\* line 218
AttemptsExceeded(s) == s.attempts > s.max_attempts

\* a faulty variant of Accumulate: the latest generation time replaces the total
Accumulate_latest(total, gen_time) == gen_time

\* line 215
Accumulate(total, gen_time) == total + gen_time

\* a faulty variant of InitialGeneration: the first source is taken as failed
\* without being built
InitialGeneration_unbuilt(s, content, latency) ==
    LET p == InitialPrompt(s.prompt_text)
        g == generate_code(content, latency, s.now + latency)
    IN  [s EXCEPT !.prompt = p,
                  !.prompts = Append(@, p),
                  !.now = @ + latency,
                  !.code = g.code,
                  !.total_gen_time = g.gen_time,
                  !.gen_times = Append(@, g.gen_time),
                  !.attempts = 1,
                  !.pc = "FailedAttempt"]

\* lines 166-173: the first generation
InitialGeneration(s, content, latency) ==
    LET p == InitialPrompt(s.prompt_text)
        g == generate_code(content, latency, s.now + latency)
    IN  [s EXCEPT !.prompt = p,
                  !.prompts = Append(@, p),
                  !.now = @ + latency,
                  !.code = g.code,
                  !.total_gen_time = g.gen_time,
                  !.gen_times = Append(@, g.gen_time),
                  !.attempts = 1,
                  !.pc = "Building"]

\* a faulty variant of StopOnTime: the source file is removed on the way out
StopOnTime_removed(s) == [s EXCEPT !.pc = "ExhaustedTime", !.sourceFile = NoFile]

\* lines 203-208: the time budget is used up
StopOnTime(s) == [s EXCEPT !.pc = "ExhaustedTime"]

\* a faulty variant of Regeneration: the attempt check is made before the counter moves
Regeneration_checkFirst(s, content, latency) ==
    LET p == RepairPrompt(s.code, s.error)
        g == generate_code(content, latency, s.now + latency)
    IN  [s EXCEPT !.prompt = p,
                  !.prompts = Append(@, p),
                  !.now = @ + latency,
                  !.code = g.code,
                  !.total_gen_time = Accumulate(@, g.gen_time),
                  !.gen_times = Append(@, g.gen_time),
                  !.attempts = @ + 1,
                  !.pc = IF AttemptsExceeded(s)
                         THEN "ExhaustedAttempts" ELSE "Building"]

\* a faulty variant of Regeneration: the attempt counter is not advanced
Regeneration_noCount(s, content, latency) ==
    LET p == RepairPrompt(s.code, s.error)
        g == generate_code(content, latency, s.now + latency)
    IN  [s EXCEPT !.prompt = p,
                  !.prompts = Append(@, p),
                  !.now = @ + latency,
                  !.code = g.code,
                  !.total_gen_time = Accumulate(@, g.gen_time),
                  !.gen_times = Append(@, g.gen_time),
                  !.pc = IF AttemptsExceeded(s)
                         THEN "ExhaustedAttempts" ELSE "Building"]

\* lines 210-223: the repair prompt, the next generation, the attempt check
Regeneration(s, content, latency) ==
    LET p == RepairPrompt(s.code, s.error)
        g == generate_code(content, latency, s.now + latency)
        t == [s EXCEPT !.prompt = p,
                       !.prompts = Append(@, p),
                       !.now = @ + latency,
                       !.code = g.code,
                       !.total_gen_time = Accumulate(@, g.gen_time),
                       !.gen_times = Append(@, g.gen_time),
                       !.attempts = @ + 1]
    IN  [t EXCEPT !.pc = IF AttemptsExceeded(t)
                         THEN "ExhaustedAttempts" ELSE "Building"]

(***************************************************************************)
(* One session                                                             *)
(***************************************************************************)
NoTwin == [pc |-> "None"]
NoFrame == [pc |-> "None"]

\* The guards on MaxCalls below hold in every state the program reaches
\* (no session makes more than max_attempts + 1 generation calls); they
\* keep the state space finite for the faulty variants as well.

InitSession(limit, budget, flag, text) ==
    [max_attempts |-> limit, max_time |-> budget,
     print_compiler_error_messages |-> flag, prompt_text |-> text,
     pc |-> "Generating", prompt |-> <<>>, code |-> <<>>, error |-> <<>>,
     total_gen_time |-> 0, attempts |-> 0, now |-> 0,
     sourceFile |-> NoFile, archives |-> <<>>, tempFile |-> NoFile,
     prompts |-> <<>>, builds |-> <<>>, archiveWrites |-> <<>>,
     gen_times |-> <<>>]

Init ==
    /\ \E limit \in 1..MaxAttemptLimit, budget \in 0..MaxTimeBudget,
          flag \in BOOLEAN, text \in PromptTexts :
            Start(InitSession(limit, budget, flag, text))
    /\ twin = NoTwin
    /\ frame = NoFrame

Generate ==
    /\ pc = "Generating"
    /\ Len(prompts) < MaxCalls
    /\ \E content \in Responses, latency \in Latencies :
            Becomes(InitialGeneration(Cur, content, latency))
    /\ UNCHANGED <<twin, frame>>

Build ==
    /\ pc = "Building"
    /\ Len(builds) < MaxCalls
    /\ \E run \in CompilerRuns : Becomes(test_code(Cur, run))
    /\ UNCHANGED <<twin, frame>>

TimeUp ==
    /\ pc = "FailedAttempt"
    /\ TimeExceeded(Cur)
    /\ Becomes(StopOnTime(Cur))
    /\ UNCHANGED <<twin, frame>>

Regenerate ==
    /\ pc = "FailedAttempt"
    /\ ~TimeExceeded(Cur)
    /\ Len(prompts) < MaxCalls
    /\ \E content \in Responses, latency \in Latencies :
            Becomes(Regeneration(Cur, content, latency))
    /\ UNCHANGED <<twin, frame>>

\* The environment: something outside the program removes the source file
\* before test_code copies it (line 138 is the only place it is read).
RemoveSource(s) == [s EXCEPT !.sourceFile = NoFile]

SourceFileRemoved ==
    /\ pc = "Building"
    /\ attempts > 1
    /\ sourceFile # NoFile
    /\ Becomes(RemoveSource(Cur))
    /\ UNCHANGED <<twin, frame>>

Next == Generate \/ Build \/ TimeUp \/ Regenerate \/ SourceFileRemoved

Spec == Init /\ [][Next]_vars

\* The loop is sequential and every step of it is taken as soon as the call
\* before it has returned: the program does not pause between steps.
FairSpec == Spec /\ WF_vars(Next)

(***************************************************************************)
(* Two sessions side by side: the same configuration but for the           *)
(* print_compiler_error_messages flag (set in the session held by the      *)
(* variables, clear in twin), the same provider responses and latencies,   *)
(* the same compiler runs, the same interference with the source file.     *)
(***************************************************************************)
PairInit ==
    \E limit \in 1..MaxAttemptLimit, budget \in 0..MaxTimeBudget,
       text \in PromptTexts :
        /\ Start(InitSession(limit, budget, TRUE, text))
        /\ twin = InitSession(limit, budget, FALSE, text)
        /\ frame = NoFrame

PairGenerate ==
    /\ pc = "Generating" /\ twin.pc = "Generating"
    /\ Len(prompts) < MaxCalls
    /\ \E content \in Responses, latency \in Latencies :
            /\ Becomes(InitialGeneration(Cur, content, latency))
            /\ twin' = InitialGeneration(twin, content, latency)
            /\ UNCHANGED frame

PairBuild ==
    /\ pc = "Building" /\ twin.pc = "Building"
    /\ Len(builds) < MaxCalls
    /\ \E run \in CompilerRuns :
            /\ Becomes(test_code(Cur, run))
            /\ twin' = test_code(twin, run)
            /\ UNCHANGED frame

PairTimeUp ==
    /\ pc = "FailedAttempt" /\ twin.pc = "FailedAttempt"
    /\ TimeExceeded(Cur) /\ TimeExceeded(twin)
    /\ Becomes(StopOnTime(Cur))
    /\ twin' = StopOnTime(twin)
    /\ UNCHANGED frame

PairRegenerate ==
    /\ pc = "FailedAttempt" /\ twin.pc = "FailedAttempt"
    /\ ~TimeExceeded(Cur) /\ ~TimeExceeded(twin)
    /\ Len(prompts) < MaxCalls
    /\ \E content \in Responses, latency \in Latencies :
            /\ Becomes(Regeneration(Cur, content, latency))
            /\ twin' = Regeneration(twin, content, latency)
            /\ UNCHANGED frame

PairSourceFileRemoved ==
    /\ pc = "Building" /\ twin.pc = "Building"
    /\ attempts > 1
    /\ sourceFile # NoFile
    /\ Becomes(RemoveSource(Cur))
    /\ twin' = RemoveSource(twin)
    /\ UNCHANGED frame

PairNext ==
    PairGenerate \/ PairBuild \/ PairTimeUp \/ PairRegenerate
    \/ PairSourceFileRemoved

SpecPair == PairInit /\ [][PairNext]_vars

(***************************************************************************)
(* One call of generate_code taken on its own: the response is any text    *)
(* of a few lines, and the call is followed through its steps.  The        *)
(* session variables stay as they are at the start of a session.           *)
(***************************************************************************)
\* the lines a raw response is made of
LinePool ==
    {<<" ">> \o OpenFence,      \* an opening fence, indented
     CloseFence,
     <<"a">>,                   \* a line of code
     <<>>,                      \* a blank line
     <<"/", "/", "c">>,         \* a comment
     <<" ", "/", "/">>,         \* a comment after leading whitespace
     <<Backtick, "b">>,         \* a backtick as the first character
     <<" ", Backtick>>}         \* a backtick after leading whitespace

RawLineSeqs == UNION {[1..n -> LinePool] : n \in 0..MaxRawLines}
CRLFLineSeqs == UNION {[1..n -> LinePool] : n \in 0..MaxCRLFLines}

\* lines separated by "\r\n"
RECURSIVE JoinCRLF(_, _)
JoinCRLF(lines, i) ==
    IF i > Len(lines) THEN <<>>
    ELSE IF i = Len(lines) THEN lines[i]
    ELSE lines[i] \o <<CR, NL>> \o JoinCRLF(lines, i + 1)

\* the responses: lines separated by "\n" or by "\r\n", with and without a
\* final line end
RawTexts ==
    {Join(ls) : ls \in RawLineSeqs}
    \cup {Join(ls) \o <<NL>> : ls \in RawLineSeqs}
    \cup {JoinCRLF(ls, 1) : ls \in CRLFLineSeqs}
    \cup {JoinCRLF(ls, 1) \o <<CR, NL>> : ls \in CRLFLineSeqs}

\* line 87: the call has received its response
Received(content, round) ==
    [pc |-> "Received", round |-> round, content |-> content,
     generation_time |-> 0, lines |-> <<>>, code_start_idx |-> 0, candidate |-> <<>>,
     code |-> <<>>, loc |-> 0, source |-> <<>>]

\* line 90
SplitContent(f) ==
    [f EXCEPT !.lines = SplitLines(f.content), !.pc = "Split"]

\* lines 93-113
Extract(f) ==
    [f EXCEPT !.code_start_idx = code_start_idx(f.lines),
              !.lines = CommentPrefix(f.lines),
              !.code = ExtractFromLines(f.lines),
              !.pc = "Extracted"]

\* lines 116-120; candidate keeps the code as it was before them
ConvertBackticks(f) ==
    [f EXCEPT !.candidate = f.code,
              !.code = CommentBackticks(f.code),
              !.pc = "Converted"]

\* lines 123-132
Return(f) ==
    [f EXCEPT !.loc = LinesOfCode(f.code),
              !.source = Header(f.generation_time, now) \o f.code,
              !.pc = "Returned"]

SanitizeInit ==
    /\ Start(InitSession(1, 0, FALSE, <<>>))
    /\ twin = NoTwin
    /\ \E content \in RawTexts : frame = Received(content, 1)

SanitizeSplit ==
    /\ frame.pc = "Received"
    /\ frame' = SplitContent(frame)
    /\ Apply(Cur) /\ UNCHANGED twin

SanitizeExtract ==
    /\ frame.pc = "Split"
    /\ frame' = Extract(frame)
    /\ Apply(Cur) /\ UNCHANGED twin

SanitizeConvert ==
    /\ frame.pc = "Extracted"
    /\ frame' = ConvertBackticks(frame)
    /\ Apply(Cur) /\ UNCHANGED twin

SanitizeReturn ==
    /\ frame.pc = "Converted"
    /\ frame' = Return(frame)
    /\ Apply(Cur) /\ UNCHANGED twin

\* the returned source is given to generate_code again as a response
SanitizeAgain ==
    /\ frame.pc = "Returned"
    /\ frame.round = 1
    /\ frame' = Received(frame.source, 2)
    /\ Apply(Cur) /\ UNCHANGED twin

SanitizeNext ==
    SanitizeSplit \/ SanitizeExtract \/ SanitizeConvert \/ SanitizeReturn
    \/ SanitizeAgain

SpecSanitize == SanitizeInit /\ [][SanitizeNext]_vars

(***************************************************************************)
(* Properties of the session                                               *)
(***************************************************************************)
\* the k-th call of test_code ran the compiler and the build failed
FailedBuild(k) ==
    k \in 1..Len(builds) /\ builds[k].status = "ran" /\ builds[k].returncode # 0

\* C1: after a failed build k with the cumulative generation time at or over
\* the time budget, the session ends in ExhaustedTime: build k is the last
\* build and generation k the last generation, also when the attempt count is
\* within the limit; with max_time = 0 a failed first build ends the session
\* after one generation and one build.
C1_StopsWhenTimeIsUp ==
    /\ [](\A k \in 1..Len(builds) :
            (FailedBuild(k) /\ builds[k].total_gen_time >= max_time)
            => /\ Len(builds) = k
               /\ Len(prompts) = k
               /\ pc \in {"FailedAttempt", "ExhaustedTime"})
    /\ [](max_time = 0 => Len(prompts) <= 1 /\ Len(builds) <= 1)
    /\ [][(pc = "FailedAttempt" /\ total_gen_time >= max_time)
            => pc' = "ExhaustedTime"]_vars
    /\ [][pc = "ExhaustedTime" => pc' = "ExhaustedTime"]_vars

C1_Witness ==
    /\ pc = "ExhaustedTime"
    /\ max_time = 0
    /\ attempts = 1
    /\ attempts < max_attempts
    /\ Len(prompts) = 1
    /\ Len(builds) = 1

\* C2 as stated: with max_attempts = 2 the session that ends in
\* ExhaustedAttempts has made exactly two generation calls.
C2_TwoGenerations ==
    (max_attempts = 2 /\ pc = "ExhaustedAttempts")
    => (Len(prompts) = 2 /\ attempts = 2)

\* C2 amended: with max_attempts = 2 and the time budget not reached, a
\* failed first build is followed by a second generation and attempts = 2; a
\* failed second build is followed by a third generation, attempts = 3, and
\* the session ends in ExhaustedAttempts without a third build.
C2_ThreeGenerations ==
    /\ [](max_attempts = 2 /\ pc = "ExhaustedAttempts"
            => /\ Len(prompts) = 3
               /\ attempts = 3
               /\ Len(builds) = 2
               /\ FailedBuild(1) /\ FailedBuild(2))
    /\ [][(max_attempts = 2 /\ pc = "FailedAttempt" /\ total_gen_time < max_time)
            => IF attempts = 1
               THEN pc' = "Building" /\ attempts' = 2 /\ Len(prompts') = 2
               ELSE /\ pc' = "ExhaustedAttempts" /\ attempts' = 3
                    /\ Len(prompts') = 3 /\ builds' = builds]_vars

C2_Witness ==
    /\ max_attempts = 2
    /\ pc = "ExhaustedAttempts"
    /\ total_gen_time < max_time
    /\ Len(prompts) = 3

\* C3: the number of generation calls made so far equals the attempt counter
\* and is at most max_attempts + 1; ExhaustedAttempts is entered only with
\* the counter at max_attempts + 1, the last generation counted and not built.
C3_GenerationsAndAttempts ==
    /\ Len(prompts) = attempts
    /\ attempts <= max_attempts + 1
    /\ pc = "ExhaustedAttempts"
         => /\ attempts = max_attempts + 1
            /\ Len(builds) = max_attempts
    /\ pc # "ExhaustedAttempts" /\ attempts > 0 => attempts <= max_attempts

C3_Witness ==
    /\ pc = "ExhaustedAttempts"
    /\ max_attempts = 1
    /\ attempts = 2
    /\ Len(prompts) = 2


\* C4: if no call ends in an exception, the session reaches one of the
\* terminal states Succeeded, ExhaustedTime, ExhaustedAttempts, whatever the
\* build outcomes, latencies, max_attempts and max_time; a terminal state is
\* never left.
C4_Terminates ==
    /\ [](pc # "Aborted") => <>(pc \in Terminal)
    /\ [][(pc \in Terminal) => vars' = vars]_vars

C4_Witness ==
    /\ pc \in Terminal
    /\ Len(builds) = MaxAttemptLimit
    /\ total_gen_time > 0

\* the k-th call of test_code ran the compiler and the build succeeded
SucceededBuild(k) ==
    k \in 1..Len(builds) /\ builds[k].status = "ran" /\ builds[k].returncode = 0

\* C5: when the k-th build exits with status zero the session is in
\* Succeeded with attempts = k, that build is the last build and generation k
\* the last generation, and exactly k-1 archive copies have been written (none
\* when the first build succeeds).
C5_SuccessEndsSession ==
    /\ \A k \in 1..Len(builds) :
          SucceededBuild(k)
          => /\ pc = "Succeeded"
             /\ Len(builds) = k
             /\ attempts = k
             /\ Len(prompts) = k
             /\ Len(archiveWrites) = k - 1
             /\ DOMAIN archives = 1..(k - 1)
    /\ pc = "Succeeded" => SucceededBuild(Len(builds))

C5_Witness ==
    /\ pc = "Succeeded"
    /\ attempts = 2
    /\ SucceededBuild(2)
    /\ Len(archiveWrites) = 1

\* C6: when the build of attempt n > 1 begins with the source file present,
\* the file is copied to the archive with suffix n-1 before it is overwritten:
\* from then on that archive holds the source written during attempt n-1.
\* With the source file absent the copy raises, nothing is written or
\* compiled, and the session is aborted.
C6_ArchiveBeforeWrite ==
    \A n \in 2..Len(builds) :
        /\ builds[n].attempt = n
        /\ IF builds[n].hadSource
           THEN /\ builds[n].status # "nocopy"
                /\ (n - 1) \in DOMAIN archives
                /\ archives[n - 1] = builds[n - 1].code
           ELSE /\ builds[n].status = "nocopy"
                /\ n = Len(builds)
                /\ pc = "Aborted"
                /\ sourceFile = NoFile
                /\ (n - 1) \notin DOMAIN archives

C6_Witness ==
    /\ Len(builds) >= 2
    /\ builds[2].hadSource
    /\ builds[1].code # builds[2].code
    /\ sourceFile = builds[2].code
    /\ archives[1] = builds[1].code


\* C7: with diagnostics suppressed, temp_compiler_error.txt does not exist
\* once test_code has been left, whether it returned or raised.
C7_TempFileRemoved ==
    ~print_compiler_error_messages => tempFile = NoFile

\* C8: a compiler that cannot be started during build k aborts the session:
\* no failed attempt is recorded, no repair prompt is built, build k is the
\* last build and generation k the last generation, and the session is in
\* none of the terminal states.
C8_MissingCompilerAborts ==
    \A k \in 1..Len(builds) :
        builds[k].status = "nospawn"
        => /\ pc = "Aborted"
           /\ Len(builds) = k
           /\ Len(prompts) = k
           /\ attempts = k
           /\ \A j \in 1..(k - 1) : FailedBuild(j)
           /\ prompt = prompts[k]
           /\ error = (IF k = 1 THEN <<>> ELSE builds[k - 1].error)

C8_Witness ==
    /\ Len(builds) = 2
    /\ builds[2].status = "nospawn"
    /\ builds[1].error # <<>>
    /\ pc = "Aborted"

\* the characters of the repair prompt that are not the embedded source or
\* diagnostic (lines 211-212)
RepairTemplateSize == 118

\* C9 as stated: every prompt is strictly larger than the prompt before it.
C9_PromptsGrow ==
    \A k \in 1..(Len(prompts) - 1) : Size(prompts[k + 1]) > Size(prompts[k])

\* C9 amended: the prompt of generation k+1 is strictly larger than the
\* source of attempt k and the diagnostic of build k together, by the size of
\* the fixed repair template.
C9_PromptLargerThanEmbedded ==
    \A k \in 1..(Len(prompts) - 1) :
        /\ FailedBuild(k)
        /\ Size(prompts[k + 1]) =
             Size(builds[k].code) + Size(builds[k].error) + RepairTemplateSize
        /\ Size(prompts[k + 1]) > Size(builds[k].code) + Size(builds[k].error)

C9_Witness ==
    /\ Len(prompts) = 3
    /\ builds[2].error # <<>>
    /\ Size(prompts[3]) < Size(prompts[2])

\* what a session shows of itself apart from the console: its position, the
\* prompts sent, the builds made, the files written
Observable(s) ==
    [pc |-> s.pc, prompts |-> s.prompts, builds |-> s.builds,
     archiveWrites |-> s.archiveWrites, archives |-> s.archives,
     sourceFile |-> s.sourceFile, error |-> s.error]

\* C10: two sessions that differ only in print_compiler_error_messages and
\* are given the same responses, latencies and compiler runs send the same
\* prompts, make the same builds and archive writes and are in the same state;
\* the diagnostic text returned by each build is the compiler's error stream.
C10_FlagDoesNotChangeSession ==
    /\ print_compiler_error_messages /\ ~twin.print_compiler_error_messages
    /\ Observable(twin) = Observable(Cur)
    /\ \A k \in 1..Len(twin.builds) :
          twin.builds[k].status = "ran"
          => twin.builds[k].error = twin.builds[k].stderr

C10_Witness ==
    /\ ~twin.print_compiler_error_messages
    /\ twin.pc = "ExhaustedAttempts"
    /\ Len(twin.prompts) = 3
    /\ twin.builds[2].stderr # <<>>
    /\ twin.prompts = prompts


\* the sum of a sequence of numbers
RECURSIVE Sum(_)
Sum(seq) == IF seq = <<>> THEN 0 ELSE Head(seq) + Sum(Tail(seq))

\* C11: the cumulative generation time is the sum of the generation times of
\* all generation calls made so far (one per prompt sent); it never decreases
\* and only a step that makes a generation call changes it.
C11_TotalIsSumOfLatencies ==
    /\ [](Len(gen_times) = Len(prompts) /\ total_gen_time = Sum(gen_times))
    /\ [][total_gen_time' >= total_gen_time]_vars
    /\ [][Len(prompts') = Len(prompts) => total_gen_time' = total_gen_time]_vars

C11_Witness ==
    /\ gen_times = <<1, 0, 1>>
    /\ total_gen_time = 2
    /\ Len(builds) = 2


(***************************************************************************)
(* Properties of generate_code                                             *)
(***************************************************************************)
\* the lines of the response of the call in frame
RawLines == SplitLines(frame.content)

\* the header of the source returned by the call in frame, and what follows it
FrameHeader == Header(frame.generation_time, now)
Body == SubSeq(frame.source, Len(FrameHeader) + 1, Len(frame.source))

\* the opening fence lines; the closing fence lines after the first of them
FenceOpens(lines) == {i \in 1..Len(lines) : Strip(lines[i]) = OpenFence}
FirstOpen(lines) ==
    CHOOSE i \in FenceOpens(lines) : \A j \in FenceOpens(lines) : i <= j
FenceCloses(lines) ==
    {i \in (FirstOpen(lines) + 1)..Len(lines) : Strip(lines[i]) = CloseFence}
FirstClose(lines) ==
    CHOOSE i \in FenceCloses(lines) : \A j \in FenceCloses(lines) : i <= j
WellFenced(lines) == FenceOpens(lines) # {} /\ FenceCloses(lines) # {}

\* the lines strictly between the first opening fence and the first closing
\* fence after it
Interior(lines) == SubSeq(lines, FirstOpen(lines) + 1, FirstClose(lines) - 1)

\* the trimmed content of a line starts with a backtick
BacktickLine(line) ==
    \E i \in 1..Len(line) :
        /\ line[i] = Backtick
        /\ \A j \in 1..(i - 1) : IsSpace(line[j])

C13_UnfencedAllComments ==
    LET raw == RawLines IN
    (frame.pc = "Returned" /\ FenceOpens(raw) = {})
    => LET out == SplitLines(Body)
       IN  /\ frame.source = FrameHeader \o Body
           /\ Body = Join(out)
           /\ Len(out) = Len(raw)
           /\ \A i \in 1..Len(out) :
                /\ StartsWith(out[i], CommentToken)
                /\ out[i] \in {raw[i], CommentToken \o raw[i]}
           /\ frame.loc = Len(raw)
           /\ frame.source
                = generate_code(frame.content, frame.generation_time, now).code

C13_Witness ==
    /\ frame.pc = "Returned"
    /\ frame.round = 1
    /\ RawLines = <<<<"a">>, <<>>, <<"/", "/", "c">>, <<" ", Backtick>>>>
    /\ SplitLines(Body) = <<<<"/", "/", "a">>, <<"/", "/">>, <<"/", "/", "c">>,
                            <<"/", "/", " ", Backtick>>>>


\* the line is a comment as the commenting steps see it
IsComment(line) == StartsWith(line, CommentToken)

\* C14: the commenting steps leave a line that starts with // as it is and
\* put // once before any other line they comment, so applied to their own
\* output they change nothing: for every line of a response, for the lines
\* commented in the working copy, for the lines of the candidate code, and
\* for a returned source that is all comments and is given to generate_code
\* again.
C14_CommentingIdempotent ==
    LET raw == RawLines IN
    /\ \A i \in 1..Len(raw) :
         LET line == raw[i]
         IN  /\ IsComment(line)
                  => CommentOut(line) = line /\ CommentBacktickLine(line) = line
             /\ ~IsComment(line) => CommentOut(line) = CommentToken \o line
             /\ CommentOut(CommentOut(line)) = CommentOut(line)
             /\ CommentBacktickLine(CommentBacktickLine(line))
                  = CommentBacktickLine(line)
             /\ CommentBacktickLine(CommentOut(line)) = CommentOut(line)
    /\ frame.pc \in {"Extracted", "Converted", "Returned"}
         => \A i \in 1..frame.code_start_idx :
                /\ frame.lines[i] = CommentOut(raw[i])
                /\ CommentOut(frame.lines[i]) = frame.lines[i]
    /\ frame.pc \in {"Converted", "Returned"}
         => LET code_lines == SplitLines(frame.code)
            IN  \A i \in 1..Len(code_lines) :
                    CommentBacktickLine(code_lines[i]) = code_lines[i]
    /\ (frame.pc = "Returned" /\ \A i \in 1..Len(raw) : IsComment(raw[i]))
         => SplitLines(Body) = raw

C14_Witness ==
    /\ frame.pc = "Returned"
    /\ frame.round = 2
    /\ Len(RawLines) = 8
    /\ RawLines[5] = <<"/", "/", " ", "/", "/">>
    /\ RawLines[6] = <<"/", "/", Backtick, "b">>
    /\ RawLines[7] = <<"/", "/", "c">>
    /\ RawLines[8] = <<"/", "/", " ", Backtick>>
    /\ SplitLines(Body) = RawLines


(***************************************************************************)
(* More properties of the session                                          *)
(***************************************************************************)
\* the k-th call of test_code wrote the source of attempt k and ran the
\* compiler on it
Built(k) ==
    k \in 1..Len(builds) /\ builds[k].attempt = k /\ builds[k].status = "ran"

\* C15 as stated: in a terminal state every generation made has been built.
C15_EveryGenerationBuilt ==
    pc \in Terminal => \A k \in 1..Len(prompts) : Built(k)

\* C15 amended: a generation that leaves the attempt counter within
\* max_attempts is followed by the build of that attempt, which writes the
\* generated source to the source file; the generation that takes the counter
\* to max_attempts + 1 is followed by no build: the session ends in
\* ExhaustedAttempts with that source neither written nor compiled.
C15_GenerationsBuiltWithinLimit ==
    /\ [](pc \in Terminal
            => \A k \in 1..Len(prompts) : k <= max_attempts => Built(k))
    /\ [](pc = "ExhaustedAttempts"
            => /\ Len(prompts) = max_attempts + 1
               /\ Len(builds) = max_attempts)
    /\ [][Len(prompts') = Len(prompts) + 1
            => IF attempts' <= max_attempts
               THEN pc' = "Building"
               ELSE pc' = "ExhaustedAttempts" /\ attempts' = max_attempts + 1]_vars
    /\ [][pc = "Building"
            => \/ pc' = "Building" /\ code' = code /\ builds' = builds
               \/ /\ Len(builds') = Len(builds) + 1
                  /\ builds'[Len(builds')].attempt = attempts
                  /\ builds'[Len(builds')].code = code
                  /\ builds'[Len(builds')].status # "nocopy"
                       => sourceFile' = code]_vars

C15_Witness ==
    /\ pc = "ExhaustedAttempts"
    /\ max_attempts = 2
    /\ Len(prompts) = 3
    /\ Len(builds) = 2
    /\ sourceFile = builds[2].code
    /\ code # sourceFile


\* part occurs in text, piece for piece
Embeds(text, part) ==
    \E i \in 1..(Len(text) - Len(part) + 1) :
        SubSeq(text, i, i + Len(part) - 1) = part

\* the source c as a repair prompt holds it: inside a fence, on lines of its own
FencedSource(c) == OpenFence \o <<NL>> \o c \o <<NL>> \o CloseFence

\* the diagnostic e as a repair prompt holds it
ReportedError(e) == <<"Error: ">> \o e \o <<NL>>

\* C16: the prompt of generation k+1 holds, unchanged, the source built in
\* attempt k and the error stream of build k, and not the source of an
\* earlier attempt that differs from it; a generation after the first is
\* made only when the build of the attempt before it has returned and failed,
\* and makes no build itself.
C16_PromptEmbedsLastBuild ==
    /\ [](\A k \in 1..(Len(prompts) - 1) :
            /\ FailedBuild(k)
            /\ Embeds(prompts[k + 1], FencedSource(builds[k].code))
            /\ Embeds(prompts[k + 1], ReportedError(builds[k].stderr))
            /\ \A j \in 1..(k - 1) :
                 builds[j].code # builds[k].code
                 => ~Embeds(prompts[k + 1], FencedSource(builds[j].code)))
    /\ [](Len(prompts) <= Len(builds) + 1)
    /\ [][(Len(prompts') = Len(prompts) + 1 /\ Len(prompts) >= 1)
            => /\ Len(builds) = Len(prompts)
               /\ FailedBuild(Len(builds))
               /\ builds' = builds
               /\ prompt' = prompts'[Len(prompts')]
               /\ Embeds(prompt', FencedSource(code))
               /\ Embeds(prompt', ReportedError(error))]_vars

C16_Witness ==
    /\ Len(prompts) = 3
    /\ builds[1].code # builds[2].code
    /\ builds[1].stderr # builds[2].stderr
    /\ builds[2].stderr # <<>>
    /\ Embeds(prompts[3], FencedSource(builds[2].code))
    /\ Embeds(prompts[2], FencedSource(builds[1].code))


\* the number of empty lines at the end of a list of lines that the
\* conversion of lines 116-120 does not give back: one, if the last is empty
LostLast(ls) == IF ls # <<>> /\ ls[Len(ls)] = <<>> THEN 1 ELSE 0

\* C17 as stated: no line of the returned source has trimmed content that
\* starts with a backtick, and the candidate code has as many lines after the
\* conversion of backtick lines as before it.
C17_BackticksCommentedSameLines ==
    /\ frame.pc = "Returned"
         => LET returned == SplitLines(frame.source)
            IN  \A i \in 1..Len(returned) : ~BacktickLine(returned[i])
    /\ frame.pc \in {"Converted", "Returned"}
         => Len(SplitLines(frame.code)) = Len(SplitLines(frame.candidate))

\* C17 amended: no line of the returned source has trimmed content that
\* starts with a backtick; the conversion puts // before every line of the
\* candidate code whose trimmed content starts with a backtick and leaves
\* every other line as it is and in place, but an empty last line of the
\* candidate code is not in the converted code; the number of non-blank
\* lines is unchanged.
C17_BackticksCommented ==
    /\ frame.pc = "Returned"
         => LET returned == SplitLines(frame.source)
            IN  \A i \in 1..Len(returned) : ~BacktickLine(returned[i])
    /\ frame.pc \in {"Converted", "Returned"}
         => LET before == SplitLines(frame.candidate)
                after == SplitLines(frame.code)
            IN  /\ Len(after) = Len(before) - LostLast(before)
                /\ \A i \in 1..Len(after) :
                     after[i] = IF BacktickLine(before[i])
                                THEN CommentToken \o before[i] ELSE before[i]
                /\ NonBlank(after) = NonBlank(before)

C17_Witness ==
    /\ frame.pc = "Returned"
    /\ frame.round = 1
    /\ frame.candidate = <<" ", Backtick, NL, NL>>
    /\ frame.code = <<"/", "/", " ", Backtick, NL>>


\* the calls of test_code that got as far as writing the source file
Performed == {k \in 1..Len(builds) : builds[k].status # "nocopy"}

\* C18: a session makes at most max_attempts builds; the k-th build is given
\* attempt number k; the archive suffixes written are 1, 2, ... in this
\* order, one by each build after the first that found the source file to
\* copy, so with n builds performed they are exactly 1..n-1, each once.
C18_BuildsWithinLimitInOrder ==
    /\ Len(builds) <= max_attempts
    /\ \A k \in 1..Len(builds) : builds[k].attempt = k
    /\ archiveWrites = [i \in 1..(Cardinality(Performed) - 1) |-> i]
    /\ DOMAIN archives = 1..(Cardinality(Performed) - 1)
    /\ \A k \in 1..Len(builds) : builds[k].status = "nocopy" => k = Len(builds)

C18_Witness ==
    /\ max_attempts = MaxAttemptLimit
    /\ Len(builds) = max_attempts
    /\ Performed = 1..Len(builds)
    /\ Len(archiveWrites) = max_attempts - 1
    /\ pc = "ExhaustedAttempts"


\* C19: in ExhaustedAttempts the last code is the output of generation
\* max_attempts + 1, made by the step that ended the session, which wrote no
\* file and made no build; the source file holds the source built in attempt
\* max_attempts, and the archives are those of attempts 1..max_attempts-1, so
\* that source has none.  In Succeeded and ExhaustedTime the source file holds
\* the last generated source, which is the one built last.
C19_FilesAtTheEnd ==
    /\ [](pc = "ExhaustedAttempts"
            => /\ Len(prompts) = max_attempts + 1
               /\ Len(builds) = max_attempts
               /\ \A k \in 1..Len(builds) : builds[k].attempt = k
               /\ sourceFile = builds[max_attempts].code
               /\ DOMAIN archives = 1..(max_attempts - 1)
               /\ \A j \in DOMAIN archives : archives[j] = builds[j].code)
    /\ [][(pc # "ExhaustedAttempts" /\ pc' = "ExhaustedAttempts")
            => /\ Len(prompts') = Len(prompts) + 1
               /\ \E content \in Responses, latency \in Latencies :
                     code' = generate_code(content, latency, now').code
               /\ UNCHANGED <<sourceFile, archives, archiveWrites, builds>>]_vars
    /\ [](pc \in {"Succeeded", "ExhaustedTime"}
            => /\ Len(builds) = Len(prompts)
               /\ builds[Len(builds)].code = code
               /\ sourceFile = code)

C19_Witness ==
    /\ pc = "ExhaustedAttempts"
    /\ max_attempts = 2
    /\ archives[1] = builds[1].code
    /\ sourceFile # archives[1]
    /\ code # sourceFile
    /\ code # archives[1]

====
